---------------------------- MODULE Spec2Model ----------------------------
(***************************************************************************)
(* The LLM provider layer of claude-code-tamagotchi                        *)
(* (src/llm/LLMProvider.ts and its caller src/llm/example-usage.ts):       *)
(* LLMProviderFactory.createConfigFromEnv, validateConfig and the          *)
(* asynchronous createProvider, over JavaScript values.                    *)
(*                                                                         *)
(* A JavaScript string is a tuple of one-character strings, so that        *)
(* toLowerCase, parseInt and template literals are computed character by   *)
(* character; the fixed text of a template literal is kept as one element  *)
(* per chunk.  A JavaScript value is a record tagged with its type.        *)
(***************************************************************************)
EXTENDS Integers, Sequences, FiniteSets, TLC

VARIABLES
    env,         \* process.env: variable name -> string or undefined
    config,      \* the LLMProviderConfig the caller holds, or NoConfig
    validation,  \* the result of the caller's last validateConfig, or NoResult
    calls,       \* the createProvider calls: position, locals, settled value
    loaded,      \* the backend modules the module loader has loaded
    heap         \* the backend instances constructed; the index is the identity

vars == <<env, config, validation, calls, loaded, heap>>

----------------------------------------------------------------------------
(* JavaScript values *)

Undefined == [t |-> "undefined"]

Str(s) == [t |-> "string", s |-> s]

Num(n) == [t |-> "number", nan |-> FALSE, v |-> n]

NaN == [t |-> "number", nan |-> TRUE, v |-> 0]

\* ToBoolean: undefined, "", 0 and NaN are falsy.
Truthy(x) ==
    CASE x.t = "undefined" -> FALSE
      [] x.t = "string" -> x.s # <<>>
      [] x.t = "number" -> ~x.nan /\ x.v # 0

\* a || b
Or(a, b) == IF Truthy(a) THEN a ELSE b

\* a <= n for a number a: every comparison with NaN is false.
Lte(a, n) == a.t = "number" /\ ~a.nan /\ a.v <= n

----------------------------------------------------------------------------
(* String.prototype.toLowerCase and parseInt *)

UpperCase ==
    <<"A", "B", "C", "D", "E", "F", "G", "H", "I", "J", "K", "L", "M",
      "N", "O", "P", "Q", "R", "S", "T", "U", "V", "W", "X", "Y", "Z">>

LowerCase ==
    <<"a", "b", "c", "d", "e", "f", "g", "h", "i", "j", "k", "l", "m",
      "n", "o", "p", "q", "r", "s", "t", "u", "v", "w", "x", "y", "z">>

LowerChar(c) ==
    IF \E i \in DOMAIN UpperCase : UpperCase[i] = c
    THEN LowerCase[CHOOSE i \in DOMAIN UpperCase : UpperCase[i] = c]
    ELSE c

toLowerCase(s) == [i \in DOMAIN s |-> LowerChar(s[i])]

RadixDigits ==
    <<"0", "1", "2", "3", "4", "5", "6", "7", "8", "9",
      "a", "b", "c", "d", "e", "f">>

WhiteSpace == {" ", "\t", "\n", "\r"}

IsDigit(c, radix) == \E i \in 1..radix : RadixDigits[i] = LowerChar(c)

DigitValue(c) == (CHOOSE i \in DOMAIN RadixDigits : RadixDigits[i] = LowerChar(c)) - 1

RECURSIVE TrimStart(_)
TrimStart(s) ==
    IF s # <<>> /\ Head(s) \in WhiteSpace THEN TrimStart(Tail(s)) ELSE s

\* The longest prefix of s made of digits of the radix.
RECURSIVE DigitPrefix(_, _)
DigitPrefix(s, radix) ==
    IF s # <<>> /\ IsDigit(Head(s), radix)
    THEN <<Head(s)>> \o DigitPrefix(Tail(s), radix)
    ELSE <<>>

RECURSIVE MathInt(_, _, _)
MathInt(z, radix, acc) ==
    IF z = <<>> THEN acc
    ELSE MathInt(Tail(z), radix, acc * radix + DigitValue(Head(z)))

\* parseInt(s) with no radix argument: leading white space, a sign, a 0x
\* prefix, then the longest run of digits; NaN when that run is empty.
parseInt(s) ==
    LET t == TrimStart(s)
        neg == t # <<>> /\ Head(t) = "-"
        u == IF t # <<>> /\ Head(t) \in {"+", "-"} THEN Tail(t) ELSE t
        hex == Len(u) >= 2 /\ u[1] = "0" /\ u[2] \in {"x", "X"}
        radix == IF hex THEN 16 ELSE 10
        w == IF hex THEN Tail(Tail(u)) ELSE u
        z == DigitPrefix(w, radix)
    IN  IF z = <<>> THEN NaN
        ELSE Num((IF neg THEN -1 ELSE 1) * MathInt(z, radix, 0))

----------------------------------------------------------------------------
(* The text the source spells out *)

GROQ == <<"g", "r", "o", "q">>

OPENAI == <<"o", "p", "e", "n", "a", "i">>

GroqDefaultModel ==
    <<"o", "p", "e", "n", "a", "i", "/", "g", "p", "t", "-",
      "o", "s", "s", "-", "2", "0", "b">>

OpenAIDefaultModel ==
    <<"g", "p", "t", "-", "3", ".", "5", "-", "t", "u", "r", "b", "o">>

DefaultTimeoutText == <<"2", "0", "0", "0">>

DefaultMaxRetries == 2

GroqKeyNames == "PET_GROQ_API_KEY or GROQ_API_KEY"

OpenAIKeyNames == "PET_OPENAI_API_KEY or OPENAI_API_KEY"

EnvVars ==
    {"PET_AI_PROVIDER",
     "PET_GROQ_API_KEY", "GROQ_API_KEY", "PET_GROQ_MODEL", "PET_GROQ_TIMEOUT",
     "PET_OPENAI_API_KEY", "OPENAI_API_KEY", "PET_OPENAI_MODEL",
     "PET_OPENAI_TIMEOUT"}

----------------------------------------------------------------------------
(* LLMProviderFactory.createConfigFromEnv *)

\* createConfigFromEnv with the groq timeout read from the openai variable.
createConfigFromEnvWrongTimeout(e) ==
    LET sel == e["PET_AI_PROVIDER"]
        lowered == IF sel = Undefined THEN Undefined ELSE Str(toLowerCase(sel.s))
        provider == Or(lowered, Str(OPENAI))
    IN  IF provider = Str(GROQ)
        THEN [provider |-> provider,
              apiKey |-> Or(e["PET_GROQ_API_KEY"], e["GROQ_API_KEY"]),
              model |-> Or(e["PET_GROQ_MODEL"], Str(GroqDefaultModel)),
              timeout |-> parseInt(Or(e["PET_OPENAI_TIMEOUT"], Str(DefaultTimeoutText)).s),
              maxRetries |-> Num(2)]
        ELSE [provider |-> provider,
              apiKey |-> Or(e["PET_OPENAI_API_KEY"], e["OPENAI_API_KEY"]),
              model |-> Or(e["PET_OPENAI_MODEL"], Str(OpenAIDefaultModel)),
              timeout |-> parseInt(Or(e["PET_OPENAI_TIMEOUT"], Str(DefaultTimeoutText)).s),
              maxRetries |-> Num(2)]

\* createConfigFromEnv with the generic key name tried first.
createConfigFromEnvGenericFirst(e) ==
    LET sel == e["PET_AI_PROVIDER"]
        lowered == IF sel = Undefined THEN Undefined ELSE Str(toLowerCase(sel.s))
        provider == Or(lowered, Str(OPENAI))
    IN  IF provider = Str(GROQ)
        THEN [provider |-> provider,
              apiKey |-> Or(e["GROQ_API_KEY"], e["PET_GROQ_API_KEY"]),
              model |-> Or(e["PET_GROQ_MODEL"], Str(GroqDefaultModel)),
              timeout |-> parseInt(Or(e["PET_GROQ_TIMEOUT"], Str(DefaultTimeoutText)).s),
              maxRetries |-> Num(2)]
        ELSE [provider |-> provider,
              apiKey |-> Or(e["OPENAI_API_KEY"], e["PET_OPENAI_API_KEY"]),
              model |-> Or(e["PET_OPENAI_MODEL"], Str(OpenAIDefaultModel)),
              timeout |-> parseInt(Or(e["PET_OPENAI_TIMEOUT"], Str(DefaultTimeoutText)).s),
              maxRetries |-> Num(2)]

createConfigFromEnv(e) ==
    LET sel == e["PET_AI_PROVIDER"]
        lowered == IF sel = Undefined THEN Undefined ELSE Str(toLowerCase(sel.s))
        provider == Or(lowered, Str(OPENAI))
    IN  IF provider = Str(GROQ)
        THEN [provider |-> provider,
              apiKey |-> Or(e["PET_GROQ_API_KEY"], e["GROQ_API_KEY"]),
              model |-> Or(e["PET_GROQ_MODEL"], Str(GroqDefaultModel)),
              timeout |-> parseInt(Or(e["PET_GROQ_TIMEOUT"], Str(DefaultTimeoutText)).s),
              maxRetries |-> Num(2)]
        ELSE [provider |-> provider,
              apiKey |-> Or(e["PET_OPENAI_API_KEY"], e["OPENAI_API_KEY"]),
              model |-> Or(e["PET_OPENAI_MODEL"], Str(OpenAIDefaultModel)),
              timeout |-> parseInt(Or(e["PET_OPENAI_TIMEOUT"], Str(DefaultTimeoutText)).s),
              maxRetries |-> Num(2)]

----------------------------------------------------------------------------
(* LLMProviderFactory.validateConfig *)

ApiKeyError(c) ==
    Str(<<"API key not found. Please set ",
          IF c.provider = Str(GROQ) THEN GroqKeyNames ELSE OpenAIKeyNames,
          " environment variable.">>)

ModelError(c) ==
    Str(<<"Model not specified for ">> \o c.provider.s \o <<" provider.">>)

TimeoutError == Str(<<"Timeout must be a positive number.">>)

\* validateConfig with the checks in the opposite order.
validateConfigTimeoutFirst(c) ==
    IF ~Truthy(c.timeout) \/ Lte(c.timeout, 0)
    THEN [isValid |-> FALSE, error |-> TimeoutError]
    ELSE IF ~Truthy(c.model)
    THEN [isValid |-> FALSE, error |-> ModelError(c)]
    ELSE IF ~Truthy(c.apiKey)
    THEN [isValid |-> FALSE, error |-> ApiKeyError(c)]
    ELSE [isValid |-> TRUE]

\* validateConfig with the timeout check reduced to config.timeout <= 0.
validateConfigLteOnly(c) ==
    IF ~Truthy(c.apiKey)
    THEN [isValid |-> FALSE, error |-> ApiKeyError(c)]
    ELSE IF ~Truthy(c.model)
    THEN [isValid |-> FALSE, error |-> ModelError(c)]
    ELSE IF Lte(c.timeout, 0)
    THEN [isValid |-> FALSE, error |-> TimeoutError]
    ELSE [isValid |-> TRUE]

validateConfig(c) ==
    IF ~Truthy(c.apiKey)
    THEN [isValid |-> FALSE, error |-> ApiKeyError(c)]
    ELSE IF ~Truthy(c.model)
    THEN [isValid |-> FALSE, error |-> ModelError(c)]
    ELSE IF ~Truthy(c.timeout) \/ Lte(c.timeout, 0)
    THEN [isValid |-> FALSE, error |-> TimeoutError]
    ELSE [isValid |-> TRUE]

----------------------------------------------------------------------------
(* LLMProviderFactory.createProvider *)

MaxCalls == 2

CallIds == 1..MaxCalls

BackendModules == {"GroqClient", "OpenAIClient"}

\* The switch with openai as the default case.
BackendOfFallback(provider) ==
    IF provider = Str(GROQ) THEN "GroqClient" ELSE "OpenAIClient"

\* The switch on provider: the backend of a case label, "default" otherwise.
BackendOf(provider) ==
    IF provider = Str(GROQ) THEN "GroqClient"
    ELSE IF provider = Str(OPENAI) THEN "OpenAIClient"
    ELSE "default"

\* The destructuring with maxRetries taken as config.maxRetries || 2.
DestructureOrDefault(c) ==
    [provider |-> c.provider,
     apiKey |-> c.apiKey,
     model |-> c.model,
     timeout |-> c.timeout,
     maxRetries |-> Or(c.maxRetries, Num(DefaultMaxRetries))]

\* const { provider, apiKey, model, timeout, maxRetries = 2 } = config
Destructure(c) ==
    [provider |-> c.provider,
     apiKey |-> c.apiKey,
     model |-> c.model,
     timeout |-> c.timeout,
     maxRetries |-> IF c.maxRetries = Undefined
                    THEN Num(DefaultMaxRetries)
                    ELSE c.maxRetries]

\* The message of the Error thrown by the default case.
UnsupportedMessage(provider) ==
    Str(<<"Unsupported AI provider: ">> \o provider.s
        \o <<". Supported providers: ">> \o GROQ \o <<", ">> \o OPENAI)

\* Both backends imported together, as two static imports would.
ImportEager(provider) == BackendModules

\* The modules a fulfilled import() of the selected case has loaded.
Import(provider) == {BackendOf(provider)}

\* One instance kept per backend class and handed out again.
NewCached(h, class, l) ==
    IF \E a \in DOMAIN h : h[a].class = class
    THEN [heap |-> h, addr |-> CHOOSE a \in DOMAIN h : h[a].class = class]
    ELSE [heap |-> Append(h, [class |-> class,
                              apiKey |-> l.apiKey,
                              model |-> l.model,
                              timeout |-> l.timeout,
                              maxRetries |-> l.maxRetries]),
          addr |-> Len(h) + 1]

\* new GroqClient(...) / new OpenAIClient(...): a fresh object on the heap.
New(h, class, l) ==
    [heap |-> Append(h, [class |-> class,
                         apiKey |-> l.apiKey,
                         model |-> l.model,
                         timeout |-> l.timeout,
                         maxRetries |-> l.maxRetries]),
     addr |-> Len(h) + 1]

NoConfig == [t |-> "none"]

NoResult == [t |-> "none"]

IdleCall == [pc |-> "idle", config |-> NoConfig, locals |-> NoConfig, value |-> Undefined]

\* createProvider(c) is called: the body runs up to the await of import(), or
\* to the throw of the default case, which rejects the returned promise.
CreateProvider(i, c) ==
    /\ calls[i].pc = "idle"
    /\ \A j \in CallIds : j < i => calls[j].pc # "idle"
    /\ LET l == Destructure(c)
       IN  calls' = [calls EXCEPT ![i] =
               IF BackendOf(l.provider) = "default"
               THEN [pc |-> "rejected", config |-> c, locals |-> l,
                     value |-> [t |-> "error", message |-> UnsupportedMessage(l.provider)]]
               ELSE [pc |-> "awaiting", config |-> c, locals |-> l,
                     value |-> Undefined]]
    /\ UNCHANGED <<env, config, validation, loaded, heap>>

\* The import() of call i is fulfilled: the backend is constructed from the
\* locals and the promise of createProvider is resolved with it.
ImportResolved(i) ==
    /\ calls[i].pc = "awaiting"
    /\ LET l == calls[i].locals
           made == New(heap, BackendOf(l.provider), l)
       IN  /\ loaded' = loaded \cup Import(l.provider)
           /\ heap' = made.heap
           /\ calls' = [calls EXCEPT ![i].pc = "resolved",
                                     ![i].value = [t |-> "object", addr |-> made.addr]]
    /\ UNCHANGED <<env, config, validation>>

----------------------------------------------------------------------------
(* The callers *)

CreateConfigFromEnv ==
    /\ config' = createConfigFromEnv(env)
    /\ validation' = NoResult
    /\ UNCHANGED <<env, calls, loaded, heap>>

ValidateConfig ==
    /\ config # NoConfig
    /\ validation' = validateConfig(config)
    /\ UNCHANGED <<env, config, calls, loaded, heap>>

\* The literal configurations a caller hands to createProvider: every
\* provider text with a complete record, a record with nothing usable in it
\* and no maxRetries, and a record with an empty key and maxRetries 0.
ProviderTexts == {GROQ, OPENAI, <<"x", "a", "i">>, <<"G", "R", "O", "Q">>}

FactoryConfigs ==
    UNION {
        {[provider |-> Str(p), apiKey |-> Str(<<"k">>), model |-> Str(<<"m">>),
          timeout |-> Num(5000), maxRetries |-> Num(5)],
         [provider |-> Str(p), apiKey |-> Undefined, model |-> Str(<<>>),
          timeout |-> Num(0), maxRetries |-> Undefined],
         [provider |-> Str(p), apiKey |-> Str(<<>>), model |-> Str(<<"m">>),
          timeout |-> NaN, maxRetries |-> Num(0)]} : p \in ProviderTexts}

\* The configurations validateConfig is applied to.
ValidateConfigs ==
    [provider : {Str(GROQ), Str(OPENAI), Str(<<"x", "a", "i">>)},
     apiKey : {Undefined, Str(<<>>), Str(<<"k">>)},
     model : {Undefined, Str(<<>>), Str(<<"m">>)},
     timeout : {Undefined, NaN, Num(-1), Num(0), Num(1), Num(2000)},
     maxRetries : {Undefined, Num(2)}]

EmptyEnv == [n \in EnvVars |-> Undefined]

\* The values a variable takes in the environments createConfigFromEnv is
\* applied to: unset, empty, or set; a selection in either case of letters or
\* unknown; a timeout that is a numeral, that starts with one, or holds none.
EnvValues(n) ==
    {Undefined, Str(<<>>)} \cup
    CASE n = "PET_AI_PROVIDER" ->
            {Str(GROQ), Str(<<"G", "r", "o", "q">>), Str(OPENAI), Str(<<"x", "a", "i">>)}
      [] n \in {"PET_GROQ_API_KEY", "PET_OPENAI_API_KEY"} -> {Str(<<"k", "1">>)}
      [] n \in {"GROQ_API_KEY", "OPENAI_API_KEY"} -> {Str(<<"k", "2">>)}
      [] n \in {"PET_GROQ_MODEL", "PET_OPENAI_MODEL"} -> {Str(<<"m", "1">>)}
      [] n = "PET_GROQ_TIMEOUT" -> {Str(<<"5", "0", "0", "0">>), Str(<<"a", "b", "c">>)}
      [] n = "PET_OPENAI_TIMEOUT" -> {Str(<<"0">>), Str(<<"1", "2", "p", "x">>)}

FactoryEnvs ==
    {EmptyEnv,
     [EmptyEnv EXCEPT !["PET_AI_PROVIDER"] = Str(<<"G", "r", "o", "q">>),
                      !["GROQ_API_KEY"] = Str(<<"k", "2">>),
                      !["PET_GROQ_TIMEOUT"] = Str(<<"5", "0", "0", "0">>)]}

Quiet ==
    /\ config = NoConfig
    /\ validation = NoResult
    /\ calls = [i \in CallIds |-> IdleCall]
    /\ loaded = {}
    /\ heap = <<>>

----------------------------------------------------------------------------
(* Any caller of the factory: Spec *)

Init == env \in FactoryEnvs /\ Quiet

\* What a caller may pass to createProvider: a literal, or the configuration
\* it got from the environment.
CallConfigs == FactoryConfigs \cup (IF config = NoConfig THEN {} ELSE {config})

Call == \E i \in CallIds : \E c \in CallConfigs : CreateProvider(i, c)

Resolve == \E i \in CallIds : ImportResolved(i)

Next == CreateConfigFromEnv \/ ValidateConfig \/ Call \/ Resolve

Spec == Init /\ [][Next]_vars

----------------------------------------------------------------------------
(* validateConfig on every configuration: SpecValidate *)

InitValidate ==
    /\ env = EmptyEnv
    /\ config \in ValidateConfigs
    /\ validation = NoResult
    /\ calls = [i \in CallIds |-> IdleCall]
    /\ loaded = {}
    /\ heap = <<>>

NextValidate == ValidateConfig

SpecValidate == InitValidate /\ [][NextValidate]_vars

----------------------------------------------------------------------------
(* demonstrateProviderUsage, example 1, in every environment: SpecEnv *)

Envs ==
    [PET_AI_PROVIDER : EnvValues("PET_AI_PROVIDER"),
     PET_GROQ_API_KEY : EnvValues("PET_GROQ_API_KEY"),
     GROQ_API_KEY : EnvValues("GROQ_API_KEY"),
     PET_GROQ_MODEL : EnvValues("PET_GROQ_MODEL"),
     PET_GROQ_TIMEOUT : EnvValues("PET_GROQ_TIMEOUT"),
     PET_OPENAI_API_KEY : EnvValues("PET_OPENAI_API_KEY"),
     OPENAI_API_KEY : EnvValues("OPENAI_API_KEY"),
     PET_OPENAI_MODEL : EnvValues("PET_OPENAI_MODEL"),
     PET_OPENAI_TIMEOUT : EnvValues("PET_OPENAI_TIMEOUT")]

InitEnv == env \in Envs /\ Quiet

DemoCreateConfig == config = NoConfig /\ CreateConfigFromEnv

DemoValidate == config # NoConfig /\ validation = NoResult /\ ValidateConfig

DemoCreateProvider ==
    /\ validation # NoResult
    /\ validation.isValid
    /\ CreateProvider(1, config)

DemoAwait == ImportResolved(1)

NextEnv == DemoCreateConfig \/ DemoValidate \/ DemoCreateProvider \/ DemoAwait

SpecEnv == InitEnv /\ [][NextEnv]_vars

----------------------------------------------------------------------------
(* Vocabulary of the properties *)

\* A string that is present and not empty.
HasText(x) == x.t = "string" /\ Len(x.s) > 0

\* A number greater than 0.
Positive(x) == x.t = "number" /\ ~x.nan /\ x.v > 0

\* sub occurs in s as a run of consecutive elements.
Contains(s, sub) ==
    \E k \in 0..(Len(s) - Len(sub)) : SubSeq(s, k + 1, k + Len(sub)) = sub

Elements(s) == {s[k] : k \in DOMAIN s}

Supported(p) == p \in {Str(GROQ), Str(OPENAI)}

Validated == config # NoConfig /\ validation # NoResult

----------------------------------------------------------------------------
(* validateConfig: SpecValidate *)

\* C1: validateConfig checks apiKey, then model, then timeout, and reports the
\* error of the first check that fails.  A configuration without a usable
\* apiKey is invalid with the apiKey error, which names the two variables of
\* its provider, whatever model and timeout are; with a usable apiKey and no
\* model the error is the model error, whatever timeout is; the timeout error
\* is reported only when apiKey and model pass.
C1_FirstFailingCheckReported ==
    Validated =>
        /\ ~HasText(config.apiKey) =>
               /\ validation.isValid = FALSE
               /\ Head(validation.error.s) = "API key not found. Please set "
               /\ config.provider = Str(GROQ) =>
                      /\ "PET_GROQ_API_KEY or GROQ_API_KEY" \in Elements(validation.error.s)
                      /\ "PET_OPENAI_API_KEY or OPENAI_API_KEY" \notin Elements(validation.error.s)
               /\ config.provider = Str(OPENAI) =>
                      /\ "PET_OPENAI_API_KEY or OPENAI_API_KEY" \in Elements(validation.error.s)
                      /\ "PET_GROQ_API_KEY or GROQ_API_KEY" \notin Elements(validation.error.s)
        /\ HasText(config.apiKey) /\ ~HasText(config.model) =>
               /\ validation.isValid = FALSE
               /\ Head(validation.error.s) = "Model not specified for "
               /\ Contains(validation.error.s, config.provider.s)
        /\ HasText(config.apiKey) /\ HasText(config.model) /\ ~Positive(config.timeout) =>
               /\ validation.isValid = FALSE
               /\ validation.error.s = <<"Timeout must be a positive number.">>

\* A groq configuration with all three checks failing has been validated.
C1_Witness ==
    /\ Validated
    /\ config.provider = Str(GROQ)
    /\ config.apiKey = Undefined
    /\ config.model = Str(<<>>)
    /\ config.timeout = Num(0)
    /\ validation.isValid = FALSE

\* C6: validateConfig returns its finding and never fails: the result is
\* isValid true with no error field exactly when apiKey is non-empty, model is
\* non-empty and timeout is greater than 0, and otherwise isValid false with
\* a non-empty error string; the call leaves the configuration as it was.
C6_Result ==
    Validated =>
        /\ validation.isValid \in BOOLEAN
        /\ validation.isValid =
               (HasText(config.apiKey) /\ HasText(config.model) /\ Positive(config.timeout))
        /\ validation.isValid => DOMAIN validation = {"isValid"}
        /\ ~validation.isValid =>
               /\ DOMAIN validation = {"isValid", "error"}
               /\ HasText(validation.error)

\* C6: the result of validateConfig is always of that form, and the step
\* that returns it leaves the configuration unchanged.
C6_ProblemsAreReturned ==
    /\ []C6_Result
    /\ [][validation' # validation => config' = config /\ validation' # NoResult]_vars

\* A configuration whose only problem is a NaN timeout has been found invalid.
C6_Witness ==
    /\ Validated
    /\ HasText(config.apiKey)
    /\ HasText(config.model)
    /\ config.timeout = NaN
    /\ validation.isValid = FALSE

----------------------------------------------------------------------------
(* createProvider: Spec *)

Started(i) == calls[i].pc # "idle"

Resolved(i) == calls[i].pc = "resolved"

\* The instance createProvider call i resolved with.
InstanceOf(i) == heap[calls[i].value.addr]

\* C3: a createProvider call whose provider is neither groq nor openai is
\* rejected with an error whose message contains that provider value and
\* names groq and openai, and the call constructs no instance and loads no
\* module.
C3_Rejected ==
    \A i \in CallIds :
        Started(i) /\ ~Supported(calls[i].config.provider) =>
            /\ calls[i].pc = "rejected"
            /\ calls[i].value.t = "error"
            /\ Contains(calls[i].value.message.s, calls[i].config.provider.s)
            /\ Contains(calls[i].value.message.s, <<"g", "r", "o", "q">>)
            /\ Contains(calls[i].value.message.s, <<"o", "p", "e", "n", "a", "i">>)

\* C3: every such call is rejected in that way, and the step that rejects it
\* changes neither the instances nor the loaded modules.
C3_UnsupportedProviderFails ==
    /\ []C3_Rejected
    /\ [][\A i \in CallIds :
              calls'[i] # calls[i] /\ ~Supported(calls'[i].config.provider) =>
                  heap' = heap /\ loaded' = loaded]_vars

\* A call with provider "xai" has been rejected after another call had
\* constructed a backend.
C3_Witness ==
    \E i, j \in CallIds :
        /\ calls[i].pc = "rejected"
        /\ calls[i].config.provider = Str(<<"x", "a", "i">>)
        /\ Resolved(j)
        /\ j < i

\* C7: createProvider does not validate: a call whose provider is groq or
\* openai is never rejected, whatever apiKey, model and timeout are, and the
\* backend it resolves with is the one of that identifier, constructed with
\* the configuration's apiKey, model and timeout as they are and with its
\* maxRetries, or 2 when the configuration has none.
C7_ConfigForwardedUnvalidated ==
    \A i \in CallIds :
        Started(i) /\ Supported(calls[i].config.provider) =>
            /\ calls[i].pc \in {"awaiting", "resolved"}
            /\ Resolved(i) =>
                   /\ calls[i].value.t = "object"
                   /\ InstanceOf(i).class =
                          (IF calls[i].config.provider = Str(<<"g", "r", "o", "q">>)
                           THEN "GroqClient" ELSE "OpenAIClient")
                   /\ InstanceOf(i).apiKey = calls[i].config.apiKey
                   /\ InstanceOf(i).model = calls[i].config.model
                   /\ InstanceOf(i).timeout = calls[i].config.timeout
                   /\ InstanceOf(i).maxRetries =
                          (IF calls[i].config.maxRetries = Undefined
                           THEN Num(2) ELSE calls[i].config.maxRetries)

\* A groq backend has been constructed from a configuration with no apiKey,
\* an empty model, timeout 0 and no maxRetries.
C7_Witness ==
    \E i \in CallIds :
        /\ Resolved(i)
        /\ calls[i].config.provider = Str(GROQ)
        /\ calls[i].config.apiKey = Undefined
        /\ calls[i].config.model = Str(<<>>)
        /\ calls[i].config.timeout = Num(0)
        /\ calls[i].config.maxRetries = Undefined
        /\ InstanceOf(i).maxRetries = Num(2)

\* C8: the factory caches nothing: in every interleaving, the resolved calls
\* hold pairwise distinct instances, also when their configurations are
\* equal; there are as many instances as resolved calls, and the instance of
\* a call carries the values of that call's own configuration.
C8_FreshInstancePerCall ==
    /\ \A i, j \in CallIds :
           Resolved(i) /\ Resolved(j) /\ i # j =>
               calls[i].value.addr # calls[j].value.addr
    /\ Len(heap) = Cardinality({i \in CallIds : Resolved(i)})
    /\ \A i \in CallIds :
           Resolved(i) =>
               /\ calls[i].value.addr \in DOMAIN heap
               /\ InstanceOf(i).apiKey = calls[i].config.apiKey
               /\ InstanceOf(i).model = calls[i].config.model
               /\ InstanceOf(i).timeout = calls[i].config.timeout

\* Two calls with equal configurations, the later one resolved first, hold
\* two instances.
C8_Witness ==
    \E i, j \in CallIds :
        /\ i < j
        /\ Resolved(i) /\ Resolved(j)
        /\ calls[i].config = calls[j].config
        /\ calls[j].value.addr < calls[i].value.addr

\* C9: a backend module is loaded only if a createProvider call made before
\* carried the identifier of that backend: createConfigFromEnv and
\* validateConfig load nothing, and a call for one backend does not load the
\* other.
C9_LazyLoading ==
    \A m \in loaded :
        \E i \in CallIds :
            /\ Started(i)
            /\ \/ m = "GroqClient" /\ calls[i].config.provider = Str(<<"g", "r", "o", "q">>)
               \/ m = "OpenAIClient"
                  /\ calls[i].config.provider = Str(<<"o", "p", "e", "n", "a", "i">>)

\* After createConfigFromEnv, validateConfig and a resolved groq call, one
\* more call rejected, GroqClient alone is loaded.
C9_Witness ==
    /\ Validated
    /\ loaded = {"GroqClient"}
    /\ \E i, j \in CallIds : Resolved(i) /\ calls[j].pc = "rejected"

----------------------------------------------------------------------------
(* createConfigFromEnv and the documented flow: SpecEnv *)

Configured == config # NoConfig

\* The variables of the provider of the returned configuration: the groq
\* ones for groq, the openai ones otherwise.
OwnKey == IF config.provider = Str(GROQ) THEN env["PET_GROQ_API_KEY"] ELSE env["PET_OPENAI_API_KEY"]

OwnGenericKey == IF config.provider = Str(GROQ) THEN env["GROQ_API_KEY"] ELSE env["OPENAI_API_KEY"]

OwnModel == IF config.provider = Str(GROQ) THEN env["PET_GROQ_MODEL"] ELSE env["PET_OPENAI_MODEL"]

OwnTimeout == IF config.provider = Str(GROQ) THEN env["PET_GROQ_TIMEOUT"] ELSE env["PET_OPENAI_TIMEOUT"]

IsNumeral(s) ==
    /\ s # <<>>
    /\ \A k \in DOMAIN s : s[k] \in {"0", "1", "2", "3", "4", "5", "6", "7", "8", "9"}

DecimalChar(c) ==
    CASE c = "0" -> 0 [] c = "1" -> 1 [] c = "2" -> 2 [] c = "3" -> 3 [] c = "4" -> 4
      [] c = "5" -> 5 [] c = "6" -> 6 [] c = "7" -> 7 [] c = "8" -> 8 [] c = "9" -> 9

\* The number a decimal numeral denotes, from its last digit.
RECURSIVE DecimalValue(_)
DecimalValue(s) ==
    IF s = <<>> THEN 0
    ELSE 10 * DecimalValue(SubSeq(s, 1, Len(s) - 1)) + DecimalChar(s[Len(s)])

\* C2: the provider of the configuration createConfigFromEnv returns is groq
\* or openai in every environment, and it is openai when PET_AI_PROVIDER is
\* absent or holds a value that is neither.
C2_ProviderIsSupported ==
    Configured =>
        /\ config.provider \in {Str(<<"g", "r", "o", "q">>), Str(<<"o", "p", "e", "n", "a", "i">>)}
        /\ env["PET_AI_PROVIDER"] \in {Undefined, Str(<<"x", "a", "i">>)} =>
               config.provider = Str(<<"o", "p", "e", "n", "a", "i">>)

C5_NamespacedKeyWheneverPresent ==
    Configured =>
        /\ OwnKey # Undefined => config.apiKey = OwnKey
        /\ OwnKey = Undefined => config.apiKey = OwnGenericKey
        /\ config.apiKey = Undefined => OwnKey = Undefined /\ OwnGenericKey = Undefined

\* C5 as the code has it: apiKey is the namespaced variable whenever that
\* variable holds text, whatever the generic variable holds; the generic
\* variable is used only when the namespaced one is absent or empty, and
\* apiKey is absent only when the generic variable is absent and the
\* namespaced one is absent or empty.
C5_NamespacedKeyWhenNotEmpty ==
    Configured =>
        /\ HasText(OwnKey) => config.apiKey = OwnKey
        /\ ~HasText(OwnKey) => config.apiKey = OwnGenericKey
        /\ config.apiKey = Undefined => ~HasText(OwnKey) /\ OwnGenericKey = Undefined

\* Both variables of the selected provider hold a key and the namespaced one
\* is the apiKey.
C5_Witness ==
    /\ Configured
    /\ config.provider = Str(GROQ)
    /\ env["PET_GROQ_API_KEY"] = Str(<<"k", "1">>)
    /\ env["GROQ_API_KEY"] = Str(<<"k", "2">>)
    /\ config.apiKey = Str(<<"k", "1">>)

\* C10: in the flow createConfigFromEnv, validateConfig, createProvider, a
\* configuration that validateConfig found valid is never rejected by
\* createProvider as an unsupported provider.
C10_ValidatedConfigAccepted ==
    \A i \in CallIds :
        Validated /\ validation.isValid /\ calls[i].config = config =>
            calls[i].pc # "rejected"

=============================================================================
